---- MODULE Spec2Model ----
(***************************************************************************)
(* EchoSOS: the chirp generator and the chirp detector of audio_utils.py   *)
(* and the receive loop of app.py / test_listener.py.                      *)
(*                                                                         *)
(* Numbers.  Samples are integers (the capture layer delivers PCM).  The   *)
(* discrete Fourier transform of a buffer of length N in {1,2,3,6} lies in *)
(* the ring Z[zeta], zeta = exp(-2 pi i / 6), and for N = 4 in Z[-i]; an   *)
(* element is a pair <<a, b>> standing for a + b*u with u the ring's unit  *)
(* root.  Its squared magnitude is the integer a^2 + b^2 (+ a*b in         *)
(* Z[zeta]).  The detector compares magnitudes with each other and with a  *)
(* non-negative threshold only, so the model carries the squared magnitude *)
(* (field peak_power2) and compares it with the squared threshold.         *)
(* Sample rates are multiples of 12, which makes every bin frequency       *)
(* k * sample_rate / N an integer.                                         *)
(***************************************************************************)
EXTENDS Integers, Sequences, FiniteSets, TLC

VARIABLES
    POWER_THRESHOLD,  \* audio_utils.POWER_THRESHOLD, a module global
    fn,               \* the core function of the call at hand
    args,             \* its arguments
    result,           \* its result, Pending before it has run
    prev_result,      \* the result of the previous call with the same arguments
    playing,          \* webrtc_ctx.state.playing
    audio_buffer,     \* AudioProcessor.audio_buffer
    pc,               \* the position of the receiver script
    audio_chunk,      \* the script's local audio_chunk
    analyzed,         \* the audio_chunk values handed to the analysis so far
    nframes           \* frames delivered to recv so far

coreVars == <<POWER_THRESHOLD, fn, args, result, prev_result>>
recvVars == <<playing, audio_buffer, pc, audio_chunk, analyzed, nframes>>
vars == <<POWER_THRESHOLD, fn, args, result, prev_result,
          playing, audio_buffer, pc, audio_chunk, analyzed, nframes>>

(***************************************************************************)
(* Bounds of the model.                                                    *)
(***************************************************************************)
MaxAmp == 1
SampleUnit == 250
MaxFrames == 4

Lengths == {0, 1, 2, 3, 4, 6}
Samples == {a * SampleUnit : a \in (0 - MaxAmp)..MaxAmp}
SampleRates == {44100, 45000, 48000, 49500, 54000, 57000, 96000}

Buffers == UNION {[1..n -> Samples] : n \in Lengths}

(***************************************************************************)
(* audio_utils.py: global configuration.                                   *)
(***************************************************************************)
EMERGENCIES ==
    << [name |-> "Medical Alert",     start_freq |-> 15000, end_freq |-> 16000],
       [name |-> "Public Harassment", start_freq |-> 17000, end_freq |-> 18000],
       [name |-> "Fire / Smoke",      start_freq |-> 19000, end_freq |-> 20000] >>

SAMPLE_RATE == 44100
DURATION == 30
POWER_THRESHOLD_DEFAULT == 500

EmergencyNames == {EMERGENCIES[i].name : i \in 1..Len(EMERGENCIES)}

None == "<None>"
Pending == [kind |-> "pending"]
Return(v) == [kind |-> "return", value |-> v]
Raise(e) == [kind |-> "raise", exc |-> e]

(***************************************************************************)
(* generate_chirp.  The samples of the sweep are cos(phase(t)); the model  *)
(* keeps the array's length and the parameters handed to scipy's chirp.    *)
(***************************************************************************)
EmptyArray == [size |-> 0, f0 |-> 0, f1 |-> 0, t1 |-> 0]

generate_chirp(emergency_name) ==
    IF emergency_name \notin EmergencyNames
    THEN Return(EmptyArray)
    ELSE LET e == CHOOSE r \in {EMERGENCIES[i] : i \in 1..Len(EMERGENCIES)} :
                      r.name = emergency_name
         IN  Return([size |-> SAMPLE_RATE * DURATION,
                     f0 |-> e.start_freq, f1 |-> e.end_freq, t1 |-> DURATION])

(***************************************************************************)
(* scipy.fft.fft and fftfreq, and numpy's abs and argmax, as the detector  *)
(* uses them.                                                              *)
(***************************************************************************)
\* exp(-2 pi i m / N) in the ring of N, as <<a, b>> = a + b*u.
Twiddle(N, m) ==
    IF N = 4
    THEN CASE m % 4 = 0 -> <<1, 0>>
           [] m % 4 = 1 -> <<0, 1>>
           [] m % 4 = 2 -> <<0 - 1, 0>>
           [] OTHER     -> <<0, 0 - 1>>
    ELSE LET e == (m * (6 \div N)) % 6
         IN  CASE e = 0 -> <<1, 0>>
               [] e = 1 -> <<0, 1>>
               [] e = 2 -> <<0 - 1, 1>>
               [] e = 3 -> <<0 - 1, 0>>
               [] e = 4 -> <<0, 0 - 1>>
               [] OTHER -> <<1, 0 - 1>>

RECURSIVE DftSum(_, _, _)
\* sum over the samples n..N-1 of x[n] * exp(-2 pi i k n / N)
DftSum(x, k, n) ==
    IF n >= Len(x)
    THEN <<0, 0>>
    ELSE LET w == Twiddle(Len(x), k * n)
             rest == DftSum(x, k, n + 1)
         IN  <<x[n + 1] * w[1] + rest[1], x[n + 1] * w[2] + rest[2]>>

\* fft(audio_data): bin k of the transform at index k + 1
fft(audio_data) == [i \in 1..Len(audio_data) |-> DftSum(audio_data, i - 1, 0)]

\* |z|^2 of an element of the ring of N
abs2(z, N) == z[1] * z[1] + z[2] * z[2] + (IF N = 4 THEN 0 ELSE z[1] * z[2])

\* fftfreq(N, 1 / sample_rate): bins 0..(N-1)//2, then -(N//2)..-1, times sample_rate / N
fftfreq(N, sample_rate) ==
    [i \in 1..N |->
        ((IF i - 1 <= (N - 1) \div 2 THEN i - 1 ELSE i - 1 - N) * sample_rate) \div N]

\* the indexes a boolean mask xf > 0 keeps, in order
positive_mask(xf) == SelectSeq([i \in 1..Len(xf) |-> i], LAMBDA i : xf[i] > 0)

\* np.argmax: the first index of the maximum; 0 stands for the ValueError numpy
\* raises on an empty sequence
argmax(s) ==
    IF Len(s) = 0
    THEN 0
    ELSE CHOOSE i \in 1..Len(s) :
             /\ \A j \in 1..Len(s) : s[j] <= s[i]
             /\ \A j \in 1..(i - 1) : s[j] < s[i]

(***************************************************************************)
(* analyze_and_detect_chirp.                                               *)
(***************************************************************************)
Detection(detected_name, peak_freq, peak_power2) ==
    Return([name |-> detected_name, peak_freq |-> peak_freq, peak_power2 |-> peak_power2])

\* the band test with its upper end left out
InRangeHalfOpen(start_freq, peak_freq, end_freq) ==
    start_freq <= peak_freq /\ peak_freq < end_freq

\* start_freq <= peak_freq <= end_freq
InRange(start_freq, peak_freq, end_freq) ==
    start_freq <= peak_freq /\ peak_freq <= end_freq

RECURSIVE ScanTable(_, _)
\* the for loop over EMERGENCIES.items() from entry i on, and the fall-through
ScanTable(i, peak_freq) ==
    IF i > Len(EMERGENCIES)
    THEN "Unknown Signal"
    ELSE IF InRange(EMERGENCIES[i].start_freq, peak_freq, EMERGENCIES[i].end_freq)
         THEN EMERGENCIES[i].name
         ELSE ScanTable(i + 1, peak_freq)

\* peak_power < POWER_THRESHOLD, on the squares (both sides are non-negative)
BelowThreshold(peak_power2) == peak_power2 < POWER_THRESHOLD * POWER_THRESHOLD

\* the body of analyze_and_detect_chirp after the N == 0 check
AnalyzeSpectrum(audio_data, sample_rate) ==
    LET N == Len(audio_data)
        yf == fft(audio_data)
        xf == fftfreq(N, sample_rate)
        mask == positive_mask(xf)
        xf_positive == [j \in 1..Len(mask) |-> xf[mask[j]]]
        yf_positive == [j \in 1..Len(mask) |-> abs2(yf[mask[j]], N)]
        peak_index == argmax(yf_positive)
    IN  IF peak_index = 0
        THEN Raise("ValueError")
        ELSE LET peak_freq == xf_positive[peak_index]
                 peak_power2 == yf_positive[peak_index]
             IN  IF BelowThreshold(peak_power2)
                 THEN Detection(None, peak_freq, peak_power2)
                 ELSE Detection(ScanTable(1, peak_freq), peak_freq, peak_power2)

\* the detector without its N == 0 check
AnalyzeUnguarded(audio_data, sample_rate) == AnalyzeSpectrum(audio_data, sample_rate)

analyze_and_detect_chirp(audio_data, sample_rate) ==
    IF Len(audio_data) = 0
    THEN Detection(None, 0, 0)
    ELSE AnalyzeSpectrum(audio_data, sample_rate)

(***************************************************************************)
(* The core functions called by a client.  A call is made, runs, and may   *)
(* be made again with the same arguments; between calls other code of the  *)
(* process may assign the module global.  power_threshold is the threshold *)
(* the caller wants applied to this call; analyze_and_detect_chirp has no  *)
(* parameter that takes it.                                                *)
(***************************************************************************)
Thresholds == {POWER_THRESHOLD_DEFAULT, 2 * POWER_THRESHOLD_DEFAULT}
CategoryInputs == EmergencyNames \cup {"Tsunami"}

AnalyzeArgs ==
    [audio_data : Buffers, sample_rate : SampleRates, power_threshold : Thresholds]
GenerateArgs == [emergency_name : CategoryInputs]

RecvIdle ==
    /\ playing = FALSE
    /\ audio_buffer = << >>
    /\ pc = "idle"
    /\ audio_chunk = << >>
    /\ analyzed = << >>
    /\ nframes = 0

Init ==
    /\ POWER_THRESHOLD = POWER_THRESHOLD_DEFAULT
    /\ \/ fn = "analyze_and_detect_chirp" /\ args \in AnalyzeArgs
       \/ fn = "generate_chirp" /\ args \in GenerateArgs
    /\ result = Pending
    /\ prev_result = Pending
    /\ RecvIdle

CallAnalyze ==
    /\ fn = "analyze_and_detect_chirp"
    /\ result = Pending
    /\ result' = analyze_and_detect_chirp(args.audio_data, args.sample_rate)
    /\ UNCHANGED <<POWER_THRESHOLD, fn, args, prev_result>>
    /\ UNCHANGED recvVars

CallGenerate ==
    /\ fn = "generate_chirp"
    /\ result = Pending
    /\ result' = generate_chirp(args.emergency_name)
    /\ UNCHANGED <<POWER_THRESHOLD, fn, args, prev_result>>
    /\ UNCHANGED recvVars

\* the same call is made a second time
CallAgain ==
    /\ result # Pending
    /\ prev_result = Pending
    /\ prev_result' = result
    /\ result' = Pending
    /\ UNCHANGED <<POWER_THRESHOLD, fn, args>>
    /\ UNCHANGED recvVars

\* audio_utils.POWER_THRESHOLD = t, between two calls
TuneThreshold ==
    /\ result = Pending
    /\ \E t \in Thresholds :
          /\ t # POWER_THRESHOLD
          /\ POWER_THRESHOLD' = t
    /\ UNCHANGED <<fn, args, result, prev_result>>
    /\ UNCHANGED recvVars

Next == CallAnalyze \/ CallGenerate \/ CallAgain \/ TuneThreshold

Spec == Init /\ [][Next]_vars

(***************************************************************************)
(* app.py / test_listener.py: the receive loop.  recv runs on the WebRTC   *)
(* worker thread; the script body runs on the application's thread.  A     *)
(* frame is named by its arrival number.                                   *)
(***************************************************************************)
CoreIdle ==
    /\ POWER_THRESHOLD = POWER_THRESHOLD_DEFAULT
    /\ fn = "none"
    /\ args = << >>
    /\ result = Pending
    /\ prev_result = Pending

RecvInit == CoreIdle /\ RecvIdle

\* the user clicks START: the streamer builds an AudioProcessor and plays
Start ==
    /\ ~playing
    /\ playing' = TRUE
    /\ audio_buffer' = << >>
    /\ UNCHANGED <<pc, audio_chunk, analyzed, nframes>>
    /\ UNCHANGED coreVars

\* AudioProcessor.recv(frame)
recv ==
    /\ playing
    /\ nframes < MaxFrames
    /\ nframes' = nframes + 1
    /\ audio_buffer' = Append(audio_buffer, nframes + 1)
    /\ UNCHANGED <<playing, pc, audio_chunk, analyzed>>
    /\ UNCHANGED coreVars

\* if playing / if audio_processor / if audio_buffer
CheckBuffer ==
    /\ pc = "idle"
    /\ playing
    /\ audio_buffer # << >>
    /\ pc' = "concatenate"
    /\ UNCHANGED <<playing, audio_buffer, audio_chunk, analyzed, nframes>>
    /\ UNCHANGED coreVars

\* audio_chunk = np.concatenate(audio_buffer)
Concatenate ==
    /\ pc = "concatenate"
    /\ audio_chunk' = audio_buffer
    /\ pc' = "clear"
    /\ UNCHANGED <<playing, audio_buffer, analyzed, nframes>>
    /\ UNCHANGED coreVars

\* audio_buffer.clear()
Clear ==
    /\ pc = "clear"
    /\ audio_buffer' = << >>
    /\ pc' = "analyze"
    /\ UNCHANGED <<playing, audio_chunk, analyzed, nframes>>
    /\ UNCHANGED coreVars

\* analyze_and_detect_chirp(audio_chunk, SAMPLE_RATE) (the plot, in the listener
\* test), to the end of the script run
AnalyzeChunk ==
    /\ pc = "analyze"
    /\ analyzed' = Append(analyzed, audio_chunk)
    /\ audio_chunk' = << >>
    /\ pc' = "idle"
    /\ UNCHANGED <<playing, audio_buffer, nframes>>
    /\ UNCHANGED coreVars

RecvNext == Start \/ recv \/ CheckBuffer \/ Concatenate \/ Clear \/ AnalyzeChunk

SpecRecv == RecvInit /\ [][RecvNext]_vars

(***************************************************************************)
(* Properties.                                                             *)
(***************************************************************************)
AnalyzeDone == fn = "analyze_and_detect_chirp" /\ result # Pending
GenerateDone == fn = "generate_chirp" /\ result # Pending
Returned == result.kind = "return"

\* the strictly positive frequency bins of a transform of length N
PositiveBins(N) == {k \in 1..(N - 1) : 2 * k < N}
BinFreq(k, N, sample_rate) == (k * sample_rate) \div N
BinPower2(x, k) == abs2(DftSum(x, k, 0), Len(x))
HasPeak(x) == PositiveBins(Len(x)) # {}
MaxPower2(x) ==
    CHOOSE m \in {BinPower2(x, k) : k \in PositiveBins(Len(x))} :
        \A k \in PositiveBins(Len(x)) : BinPower2(x, k) <= m
Square(t) == t * t
BandHolds(i, f) == EMERGENCIES[i].start_freq <= f /\ f <= EMERGENCIES[i].end_freq
SomeBandHolds(f) == \E i \in 1..Len(EMERGENCIES) : BandHolds(i, f)

\* C1: a non-empty buffer whose peak power is at or above the threshold is
\* classified into the first category, in table order, whose band holds the peak
\* frequency, both ends of the band included.
C1_FirstBandInclusive ==
    (AnalyzeDone /\ Len(args.audio_data) > 0 /\ HasPeak(args.audio_data)
       /\ MaxPower2(args.audio_data) >= Square(POWER_THRESHOLD))
    => /\ Returned
       /\ \A i \in 1..Len(EMERGENCIES) :
            (/\ BandHolds(i, result.value.peak_freq)
             /\ \A j \in 1..(i - 1) : ~BandHolds(j, result.value.peak_freq))
            => result.value.name = EMERGENCIES[i].name

\* a peak exactly at start_hz of a band, classified into that band
C1_PeakAtBandStart ==
    /\ AnalyzeDone /\ Returned
    /\ \E i \in 1..Len(EMERGENCIES) :
          /\ result.value.peak_freq = EMERGENCIES[i].start_freq
          /\ result.value.name = EMERGENCIES[i].name

\* a peak exactly at end_hz of a band, classified into that band
C1_PeakAtBandEnd ==
    /\ AnalyzeDone /\ Returned
    /\ \E i \in 1..Len(EMERGENCIES) :
          /\ result.value.peak_freq = EMERGENCIES[i].end_freq
          /\ result.value.name = EMERGENCIES[i].name

ThreeOutcomes ==
    LET r == result.value
        below == r.peak_power2 < Square(POWER_THRESHOLD)
    IN  \/ below /\ r.name = None
        \/ ~below /\ SomeBandHolds(r.peak_freq) /\ r.name \in EmergencyNames
        \/ ~below /\ ~SomeBandHolds(r.peak_freq) /\ r.name = "Unknown Signal"

\* C2: for a non-empty buffer the detector has exactly three outcomes: none below
\* the threshold; a table category at or above it when a band holds the peak;
\* "Unknown Signal" at or above it when no band does.
C2_ThreeOutcomes ==
    (AnalyzeDone /\ Len(args.audio_data) > 0) => (Returned /\ ThreeOutcomes)

\* C2 on the buffers that have a strictly positive frequency bin
C2_ThreeOutcomesWithPeak ==
    (AnalyzeDone /\ HasPeak(args.audio_data)) => (Returned /\ ThreeOutcomes)

\* C3: analyze is total: every call returns a detection result, none raises.
C3_Total == AnalyzeDone => Returned

\* C4: generate_chirp with a category that is no key of the table fails with an
\* UnknownCategory error and returns no buffer.
C4_UnknownCategoryFails ==
    (GenerateDone /\ args.emergency_name \notin EmergencyNames)
    => (result.kind = "raise" /\ result.exc = "UnknownCategory")

\* C5: analyze on a zero-length buffer returns exactly (none, 0, 0), whatever the
\* sample rate and the threshold.
C5_EmptyBuffer ==
    (AnalyzeDone /\ Len(args.audio_data) = 0)
    => result = Return([name |-> None, peak_freq |-> 0, peak_power2 |-> 0])

\* the empty buffer analyzed at a sample rate and under a threshold that are not
\* the defaults
C5_EmptyBufferAnalyzed ==
    /\ AnalyzeDone
    /\ Len(args.audio_data) = 0
    /\ args.sample_rate # SAMPLE_RATE
    /\ POWER_THRESHOLD # POWER_THRESHOLD_DEFAULT

\* C6: the threshold is the caller's, per call: a threshold above the buffer's peak
\* power yields none, one at or below it yields a category or "Unknown Signal", and
\* the reported peak is the same under every threshold.
C6_CallerThreshold ==
    (AnalyzeDone /\ Returned /\ Len(args.audio_data) > 0)
    => /\ Square(args.power_threshold) > result.value.peak_power2
            => result.value.name = None
       /\ Square(args.power_threshold) <= result.value.peak_power2
            => result.value.name # None
       /\ (prev_result # Pending /\ prev_result.kind = "return")
            => /\ prev_result.value.peak_freq = result.value.peak_freq
               /\ prev_result.value.peak_power2 = result.value.peak_power2

\* C6 with the module global in the caller's place
C6_GlobalThreshold ==
    (AnalyzeDone /\ Returned /\ Len(args.audio_data) > 0)
    => /\ Square(POWER_THRESHOLD) > result.value.peak_power2
            => result.value.name = None
       /\ Square(POWER_THRESHOLD) <= result.value.peak_power2
            => result.value.name # None
       /\ (prev_result # Pending /\ prev_result.kind = "return")
            => /\ prev_result.value.peak_freq = result.value.peak_freq
               /\ prev_result.value.peak_power2 = result.value.peak_power2

\* C8: the core operations are pure: two calls with the same arguments return the
\* same result, whatever the globals were assigned in between.
C8_Pure ==
    (result # Pending /\ prev_result # Pending) => result = prev_result

PeakIsFirstMaxBin ==
    LET x == args.audio_data
        N == Len(x)
        r == result.value
    IN  \E k \in PositiveBins(N) :
           /\ r.peak_freq = BinFreq(k, N, args.sample_rate)
           /\ r.peak_freq > 0
           /\ r.peak_power2 = BinPower2(x, k)
           /\ \A j \in PositiveBins(N) :
                 /\ BinPower2(x, j) <= BinPower2(x, k)
                 /\ j < k => BinPower2(x, j) < BinPower2(x, k)

\* C9: for every non-empty buffer the reported peak is a strictly positive bin of
\* maximum magnitude among the strictly positive bins, the lowest such bin when
\* several share the maximum, and peak_power is that bin's magnitude.
C9_PeakIsFirstMaxBin ==
    (AnalyzeDone /\ Len(args.audio_data) > 0) => (Returned /\ PeakIsFirstMaxBin)

\* C9 on the buffers that have a strictly positive frequency bin
C9_PeakIsFirstMaxBinWithPeak ==
    (AnalyzeDone /\ HasPeak(args.audio_data)) => (Returned /\ PeakIsFirstMaxBin)

\* two positive bins share the maximum and the lower one is reported
C9_TieReported ==
    /\ AnalyzeDone /\ Returned
    /\ \E j, k \in PositiveBins(Len(args.audio_data)) :
          /\ j < k
          /\ BinPower2(args.audio_data, j) = BinPower2(args.audio_data, k)
          /\ BinPower2(args.audio_data, j) = MaxPower2(args.audio_data)
          /\ BinPower2(args.audio_data, j) > 0

Occurrences(s, f) == Cardinality({i \in 1..Len(s) : s[i] = f})
\* how many buffers handed to the analysis (or about to be: concatenated) hold f
TimesAnalyzed(f) ==
    Cardinality({i \in 1..Len(analyzed) : Occurrences(analyzed[i], f) > 0})
    + (IF pc \in {"clear", "analyze"} /\ Occurrences(audio_chunk, f) > 0 THEN 1 ELSE 0)

\* C10: every chunk recv appended is in exactly one analyzed buffer: none is
\* cleared without having been concatenated, none is analyzed twice.
C10_EveryChunkOnce ==
    \A f \in 1..nframes :
        /\ TimesAnalyzed(f) <= 1
        /\ TimesAnalyzed(f) = 1 \/ Occurrences(audio_buffer, f) > 0

\* the half of C10 that no interleaving breaks: no chunk is analyzed twice
C10_NoChunkTwice ==
    \A f \in 1..nframes :
        /\ TimesAnalyzed(f) <= 1
        /\ \A i \in 1..Len(analyzed) : Occurrences(analyzed[i], f) <= 1

====
